---------------------------- MODULE Spec2Model ----------------------------
(***************************************************************************)
(* State-machine model of the mr-version/tag GitHub action                 *)
(* (src/src/index.ts): run -> findProjectFiles -> getProjectVersion* ->    *)
(* filterProjects -> createTags (createTag per request, determineGlobalTags)*)
(* -> setOutput.  Strings are sequences of one-character strings so that   *)
(* toLowerCase, split, parseInt, replace and concatenation are computed    *)
(* the way the code computes them.  Every exec call of the code has its    *)
(* possible results (exit code, stdout, raised error) chosen by the        *)
(* environment.                                                            *)
(***************************************************************************)
EXTENDS Integers, Sequences, FiniteSets, TLC

(***************************************************************************)
(* Bounds of the model.                                                    *)
(***************************************************************************)
\* Largest number of project files discovery returns.
MaxProjects == 2
\* Largest number of exec calls of createTag that fail in one run.
MaxFaults == 2
\* Largest number of records given to filterProjects and determineGlobalTags
\* when they are checked on their own (SpecSelect, SpecPlan).
MaxRecords == 2

(***************************************************************************)
(* Strings.                                                                *)
(***************************************************************************)
UpperChars == <<"A","B","C","D","E","F","G","H","I","J","K","L","M",
                "N","O","P","Q","R","S","T","U","V","W","X","Y","Z">>
LowerChars == <<"a","b","c","d","e","f","g","h","i","j","k","l","m",
                "n","o","p","q","r","s","t","u","v","w","x","y","z">>
DigitChars == <<"0","1","2","3","4","5","6","7","8","9">>
WhiteChars == {" ", "\t", "\n"}

\* String.prototype.toLowerCase on one character.
LowerChar(c) ==
    IF \E i \in 1..Len(UpperChars) : UpperChars[i] = c
    THEN LowerChars[CHOOSE i \in 1..Len(UpperChars) : UpperChars[i] = c]
    ELSE c

\* String.prototype.toLowerCase.
ToLowerCase(s) == [i \in 1..Len(s) |-> LowerChar(s[i])]

IsDigit(c) == \E i \in 1..Len(DigitChars) : DigitChars[i] = c

DigitVal(c) == (CHOOSE i \in 1..Len(DigitChars) : DigitChars[i] = c) - 1

\* String.prototype.trim.
RECURSIVE TrimLeft(_)
TrimLeft(s) ==
    IF s # <<>> /\ Head(s) \in WhiteChars THEN TrimLeft(Tail(s)) ELSE s

RECURSIVE TrimRight(_)
TrimRight(s) ==
    IF s # <<>> /\ s[Len(s)] \in WhiteChars
    THEN TrimRight(SubSeq(s, 1, Len(s) - 1))
    ELSE s

Trim(s) == TrimRight(TrimLeft(s))

\* String.prototype.split with a one-character separator: the pieces between
\* the separators, in order ("" splits into one empty piece).
RECURSIVE SplitAcc(_, _, _)
SplitAcc(s, sep, cur) ==
    IF s = <<>> THEN <<cur>>
    ELSE IF Head(s) = sep THEN <<cur>> \o SplitAcc(Tail(s), sep, <<>>)
    ELSE SplitAcc(Tail(s), sep, Append(cur, Head(s)))

Split(s, sep) == SplitAcc(s, sep, <<>>)

\* The value of the longest prefix of decimal digits, given the value so far.
RECURSIVE DigitsValue(_, _)
DigitsValue(s, acc) ==
    IF s # <<>> /\ IsDigit(Head(s))
    THEN DigitsValue(Tail(s), 10 * acc + DigitVal(Head(s)))
    ELSE acc

\* A JavaScript number as parseInt returns it: NaN, or an integer.
NaN == [nan |-> TRUE, val |-> 0]

Num(n) == [nan |-> FALSE, val |-> n]

\* parseInt(string) with no radix, on the strings of the model (no 0x prefix):
\* leading white space is skipped, an optional sign is read, then the longest
\* prefix of decimal digits; NaN when there is no digit.
ParseInt(str) ==
    LET s    == TrimLeft(str)
        neg  == s # <<>> /\ Head(s) = "-"
        body == IF s # <<>> /\ Head(s) \in {"-", "+"} THEN Tail(s) ELSE s
    IN  IF body = <<>> \/ ~IsDigit(Head(body)) THEN NaN
        ELSE IF neg THEN Num(0 - DigitsValue(body, 0))
        ELSE Num(DigitsValue(body, 0))

\* Whether pat occurs in s at position i.
OccursAt(s, pat, i) ==
    /\ i >= 1
    /\ i + Len(pat) - 1 <= Len(s)
    /\ SubSeq(s, i, i + Len(pat) - 1) = pat

\* Replace replacing every occurrence, as replaceAll does.
RECURSIVE ReplaceAll(_, _, _)
ReplaceAll(s, pat, rep) ==
    IF s = <<>> THEN <<>>
    ELSE IF OccursAt(s, pat, 1)
         THEN rep \o ReplaceAll(SubSeq(s, Len(pat) + 1, Len(s)), pat, rep)
         ELSE <<Head(s)>> \o ReplaceAll(Tail(s), pat, rep)

\* String.prototype.replace(pattern, replacement) with a string pattern and a
\* replacement holding no "$": the first occurrence only is replaced.
Replace(s, pat, rep) ==
    IF \E i \in 1..Len(s) : OccursAt(s, pat, i)
    THEN LET i == CHOOSE k \in 1..Len(s) :
                     /\ OccursAt(s, pat, k)
                     /\ \A j \in 1..(k - 1) : ~OccursAt(s, pat, j)
         IN  SubSeq(s, 1, i - 1) \o rep \o SubSeq(s, i + Len(pat), Len(s))
    ELSE s

\* `a === b` for a parseInt result and a number: NaN equals nothing.
StrictEq(x, n) == ~x.nan /\ x.val = n

(***************************************************************************)
(* String literals of the code and of the inputs.                          *)
(***************************************************************************)
MajorOnly == <<"m","a","j","o","r","-","o","n","l","y">>
All == <<"a","l","l">>
None == <<"n","o","n","e">>
Slash == <<"/">>
Dot == "."
Global == <<"G","l","o","b","a","l">>
VersionPlaceholder == <<"{","v","e","r","s","i","o","n","}">>
ProjectPlaceholder == <<"{","p","r","o","j","e","c","t","}">>
TypePlaceholder == <<"{","t","y","p","e","}">>
DefaultEmail == <<"actions@github.com">>
DefaultName == <<"GitHub Actions">>
TagAlreadyExists == <<"Tag already exists">>
DryRunMode == <<"Dry run mode">>
FailedToCreate == <<"Failed to create: ">>
\* TagInfo.reason is optional: the empty sequence stands for `undefined`.
NoReason == <<>>

(***************************************************************************)
(* filterProjects.                                                         *)
(***************************************************************************)
\* KeepProject without the test of isPackable.
KeepProjectIgnoringPackable(project, options) ==
    IF ~options.includeTestProjects /\ project.isTestProject THEN FALSE
    ELSE IF options.onlyChanged /\ ~project.versionChanged THEN FALSE
    ELSE TRUE

\* The callback of projects.filter: three early `return false`, else true.
KeepProject(project, options) ==
    IF ~options.includeTestProjects /\ project.isTestProject THEN FALSE
    ELSE IF ~options.includeNonPackable /\ ~project.isPackable THEN FALSE
    ELSE IF options.onlyChanged /\ ~project.versionChanged THEN FALSE
    ELSE TRUE

\* Array.prototype.filter: the kept elements, in their order.
RECURSIVE FilterSeq(_, _)
FilterSeq(projects, options) ==
    IF projects = <<>> THEN <<>>
    ELSE IF KeepProject(Head(projects), options)
         THEN <<Head(projects)>> \o FilterSeq(Tail(projects), options)
         ELSE FilterSeq(Tail(projects), options)

filterProjects(projects, options) == FilterSeq(projects, options)

(***************************************************************************)
(* determineGlobalTags.                                                    *)
(***************************************************************************)
\* ShouldCreateGlobalTag with major-only testing the minor component alone.
ShouldCreateGlobalTagMinorOnly(strategy, minor, patch) ==
    LET s == ToLowerCase(strategy)
    IN  IF s = MajorOnly THEN StrictEq(minor, 0)
        ELSE IF s = All THEN TRUE
        ELSE FALSE

\* The switch on strategy.toLowerCase(); no case matching leaves false.
ShouldCreateGlobalTag(strategy, minor, patch) ==
    LET s == ToLowerCase(strategy)
    IN  IF s = MajorOnly THEN StrictEq(minor, 0) /\ StrictEq(patch, 0)
        ELSE IF s = All THEN TRUE
        ELSE IF s = None THEN FALSE
        ELSE FALSE

\* GlobalTagsStep without the test for a tag name already planned.
GlobalTagsStepNoDedup(globalTags, project, strategy, tagPrefix) ==
    LET version      == project.version
        versionParts == Split(version, Dot)
    IN  IF Len(versionParts) < 3 THEN globalTags
        ELSE IF ShouldCreateGlobalTag(strategy, ParseInt(versionParts[2]),
                                      ParseInt(versionParts[3]))
             THEN Append(globalTags, [tagName |-> tagPrefix \o version,
                                      version |-> version])
             ELSE globalTags

\* One iteration of the loop over projects: globalTags after this project.
GlobalTagsStep(globalTags, project, strategy, tagPrefix) ==
    LET version      == project.version
        versionParts == Split(version, Dot)
    IN  IF Len(versionParts) < 3 THEN globalTags
        ELSE LET minor == ParseInt(versionParts[2])
                 patch == ParseInt(versionParts[3])
                 globalTagName == tagPrefix \o version
             IN  IF /\ ShouldCreateGlobalTag(strategy, minor, patch)
                    /\ ~\E i \in 1..Len(globalTags) :
                           globalTags[i].tagName = globalTagName
                 THEN Append(globalTags,
                             [tagName |-> globalTagName, version |-> version])
                 ELSE globalTags

RECURSIVE GlobalTagsLoop(_, _, _, _)
GlobalTagsLoop(globalTags, projects, strategy, tagPrefix) ==
    IF projects = <<>> THEN globalTags
    ELSE GlobalTagsLoop(
             GlobalTagsStep(globalTags, Head(projects), strategy, tagPrefix),
             Tail(projects), strategy, tagPrefix)

determineGlobalTags(projects, strategy, tagPrefix) ==
    GlobalTagsLoop(<<>>, projects, strategy, tagPrefix)

(***************************************************************************)
(* Tag names and messages built by createTags.                             *)
(***************************************************************************)
\* ProjectTagName with the project name as mr-version gave it.
ProjectTagNameAsGiven(project, tagPrefix) ==
    project.project \o Slash \o tagPrefix \o project.version

\* `${project.project.toLowerCase()}/${options.tagPrefix}${project.version}`
ProjectTagName(project, tagPrefix) ==
    ToLowerCase(project.project) \o Slash \o tagPrefix \o project.version

ProjectMessage(template, project) ==
    Replace(Replace(Replace(template, VersionPlaceholder, project.version),
                    ProjectPlaceholder, project.project),
            TypePlaceholder, project.project)

GlobalMessage(template, globalTag) ==
    Replace(Replace(Replace(template, VersionPlaceholder, globalTag.version),
                    ProjectPlaceholder, Global),
            TypePlaceholder, Global)

\* The TagInfo createTag starts from.
NewTagInfo(tagName, version, projectName, isGlobal, message) ==
    [tagName |-> tagName, version |-> version, projectName |-> projectName,
     isGlobal |-> isGlobal, message |-> message,
     created |-> FALSE, skipped |-> FALSE, reason |-> NoReason]

\* The TagCreationResult createTags starts from.
EmptyResult ==
    [tagsCreated |-> <<>>, globalTags |-> <<>>, projectTags |-> <<>>,
     totalCount |-> 0, skippedCount |-> 0]

\* PushTagInfo counting every outcome as created.
PushTagInfoCountAll(result, tagInfo) ==
    [result EXCEPT
       !.tagsCreated = Append(@, tagInfo),
       !.globalTags  = IF tagInfo.isGlobal THEN Append(@, tagInfo) ELSE @,
       !.projectTags = IF tagInfo.isGlobal THEN @ ELSE Append(@, tagInfo),
       !.totalCount  = @ + 1]

\* PushTagInfo putting the outcome at the front of tagsCreated (unshift).
PushTagInfoUnshift(result, tagInfo) ==
    LET pushed == [result EXCEPT
                     !.tagsCreated = <<tagInfo>> \o @,
                     !.globalTags  = IF tagInfo.isGlobal THEN Append(@, tagInfo) ELSE @,
                     !.projectTags = IF tagInfo.isGlobal THEN @ ELSE Append(@, tagInfo)]
    IN  IF tagInfo.created
        THEN [pushed EXCEPT !.totalCount = @ + 1]
        ELSE [pushed EXCEPT !.skippedCount = @ + 1]

\* result after the pushes and the counter update that follow a createTag call.
PushTagInfo(result, tagInfo) ==
    LET pushed == [result EXCEPT
                     !.tagsCreated = Append(@, tagInfo),
                     !.globalTags  = IF tagInfo.isGlobal THEN Append(@, tagInfo) ELSE @,
                     !.projectTags = IF tagInfo.isGlobal THEN @ ELSE Append(@, tagInfo)]
    IN  IF tagInfo.created
        THEN [pushed EXCEPT !.totalCount = @ + 1]
        ELSE [pushed EXCEPT !.skippedCount = @ + 1]

(***************************************************************************)
(* The inputs the model draws from.                                        *)
(***************************************************************************)
V200 == <<"2",".","0",".","0">>
V210 == <<"2",".","1",".","0">>
TagPrefixV == <<"v">>
TemplateShort == <<"{","t","y","p","e","}"," ","{","v","e","r","s","i","o","n","}">>

ProjectRecord(name, version, changed, test, packable) ==
    [project |-> name, version |-> version, versionChanged |-> changed,
     isTestProject |-> test, isPackable |-> packable]

\* What mr-version may answer for a project file in a run: two projects whose
\* names differ only in case, at the same major version, and a test project at
\* a minor version.
Catalog ==
    { ProjectRecord(<<"W","e","b">>, V200, TRUE, FALSE, TRUE),
      ProjectRecord(<<"w","e","b">>, V200, TRUE, FALSE, TRUE),
      ProjectRecord(<<"A","p","i">>, V210, TRUE, TRUE, TRUE) }

\* The tags the repository may hold before the run.
InitialTagSets ==
    SUBSET { <<"w","e","b","/","v">> \o V200, TagPrefixV \o V200 }

\* user.email before the run: unset, or a developer's.
InitialEmails == { <<>>, <<"dev@example.com">> }

RunInputs ==
    [tagPrefix : {TagPrefixV},
     createGlobalTags : BOOLEAN,
     globalTagStrategy : {MajorOnly, All, None},
     tagMessageTemplate : {TemplateShort},
     dryRun : BOOLEAN,
     failOnExisting : BOOLEAN,
     includeTestProjects : BOOLEAN,
     includeNonPackable : {FALSE},
     onlyChanged : {TRUE},
     signTags : BOOLEAN]

(***************************************************************************)
(* State.                                                                  *)
(***************************************************************************)
VARIABLES
    inputs,            \* the action's inputs, read once at the start of run
    pc,                \* where run is
    projectFiles,      \* number of project files findProjectFiles returned
    projectVersions,   \* run's projectVersions
    filteredProjects,  \* run's filteredProjects = createTags' options.projects
    result,            \* createTags' result
    globalTags,        \* createTags' globalTags (determineGlobalTags' value)
    idx,               \* position of the current for loop of createTags
    tagInfo,           \* createTag's tagInfo for the request being processed
    tags,              \* the repository's tags (names)
    userEmail,         \* git config user.email (<<>>: unset)
    userName,          \* git config user.name (<<>>: unset)
    outputs,           \* what core.setOutput emitted: <<>> or <<result>>
    failure,           \* core.setFailed's cause ("" while not failed)
    calls,             \* the exec calls of the current createTag, in order
    tagAttempts,       \* the names `git tag` was invoked with in this run
    faults,            \* number of createTag's exec calls that failed so far
    initTags,          \* the repository's tags when the run started
    firstRun           \* <<>> in a first run; in a run that repeats one, what
                       \* that run resolved and the tag names it created

vars == <<inputs, pc, projectFiles, projectVersions, filteredProjects, result,
          globalTags, idx, tagInfo, tags, userEmail, userName, outputs,
          failure, calls, tagAttempts, faults, initTags, firstRun>>

NoTagInfo == NewTagInfo(<<>>, <<>>, <<>>, FALSE, <<>>)

\* One exec call: the command, the tag it names (<<>>: none) and whether the
\* repository held that tag when the call was made.
Call(cmd, tag) == [cmd |-> cmd, tag |-> tag, present |-> tag \in tags]

InitWith(in, t, email) ==
    /\ inputs = in
    /\ pc = "findProjectFiles"
    /\ projectFiles = 0
    /\ projectVersions = <<>>
    /\ filteredProjects = <<>>
    /\ result = EmptyResult
    /\ globalTags = <<>>
    /\ idx = 1
    /\ tagInfo = NoTagInfo
    /\ tags = t
    /\ userEmail = email
    /\ userName = IF email = <<>> THEN <<>> ELSE <<"Dev">>
    /\ outputs = <<>>
    /\ failure = ""
    /\ calls = <<>>
    /\ tagAttempts = {}
    /\ faults = 0
    /\ initTags = t
    /\ firstRun = <<>>

Init ==
    \E in \in RunInputs, t \in InitialTagSets, email \in InitialEmails :
        InitWith(in, t, email)

(***************************************************************************)
(* run, up to createTags.                                                  *)
(***************************************************************************)
\* The catch block of run: core.setFailed.
Fail(cause) ==
    /\ pc' = "failed"
    /\ failure' = cause

\* findProjectFiles and the early return on no project file.  A run that
\* repeats a run finds the same files.
FindProjectFiles ==
    /\ pc = "findProjectFiles"
    /\ \E n \in 0..MaxProjects :
        /\ firstRun # <<>> => n = Len(firstRun[1].projectVersions)
        /\ projectFiles' = n
        /\ pc' = IF n = 0 THEN "done" ELSE "getProjectVersion"
    /\ UNCHANGED <<inputs, projectVersions, filteredProjects, result,
                   globalTags, idx, tagInfo, tags, userEmail, userName,
                   outputs, failure, calls, tagAttempts, faults, initTags, firstRun>>

\* findProjectFiles raising (glob).
FindProjectFilesRaises ==
    /\ pc = "findProjectFiles"
    /\ firstRun = <<>>
    /\ Fail("findProjectFiles")
    /\ UNCHANGED <<inputs, projectFiles, projectVersions, filteredProjects,
                   result, globalTags, idx, tagInfo, tags, userEmail,
                   userName, outputs, calls, tagAttempts, faults, initTags, firstRun>>

\* getProjectVersion for the next project file, mr-version answering a record
\* (each project file is another project; a run that repeats a run gets the
\* same answers).
GetProjectVersion ==
    /\ pc = "getProjectVersion"
    /\ \E version \in Catalog :
        /\ firstRun # <<>> =>
               version = firstRun[1].projectVersions[Len(projectVersions) + 1]
        /\ \A i \in 1..Len(projectVersions) :
               projectVersions[i].project # version.project
        /\ projectVersions' = Append(projectVersions, version)
        /\ pc' = IF Len(projectVersions) + 1 = projectFiles
                 THEN "filterProjects" ELSE "getProjectVersion"
    /\ UNCHANGED <<inputs, projectFiles, filteredProjects, result, globalTags,
                   idx, tagInfo, tags, userEmail, userName, outputs, failure,
                   calls, tagAttempts, faults, initTags, firstRun>>

\* GetProjectVersionFails with the outputs emitted on the way out (a finally).
GetProjectVersionFailsWithOutputs ==
    /\ pc = "getProjectVersion"
    /\ firstRun = <<>>
    /\ \E cause \in {"mr-version raised", "mr-version failed",
                     "Failed to parse mr-version output"} :
        Fail(cause)
    /\ outputs' = <<result>>
    /\ UNCHANGED <<inputs, projectFiles, projectVersions, filteredProjects,
                   result, globalTags, idx, tagInfo, tags, userEmail,
                   userName, calls, tagAttempts, faults, initTags, firstRun>>

\* getProjectVersion throwing: exec raising, a non-zero exit code, or output
\* JSON.parse rejects.
GetProjectVersionFails ==
    /\ pc = "getProjectVersion"
    /\ firstRun = <<>>
    /\ \E cause \in {"mr-version raised", "mr-version failed",
                     "Failed to parse mr-version output"} :
        Fail(cause)
    /\ UNCHANGED <<inputs, projectFiles, projectVersions, filteredProjects,
                   result, globalTags, idx, tagInfo, tags, userEmail,
                   userName, outputs, calls, tagAttempts, faults, initTags, firstRun>>

\* filterProjects, then createTags is entered.
FilterProjects ==
    /\ pc = "filterProjects"
    /\ filteredProjects' = filterProjects(projectVersions, inputs)
    /\ result' = EmptyResult
    /\ idx' = 1
    /\ pc' = "projectLoop"
    /\ UNCHANGED <<inputs, projectFiles, projectVersions, globalTags, tagInfo,
                   tags, userEmail, userName, outputs, failure, calls,
                   tagAttempts, faults, initTags, firstRun>>

(***************************************************************************)
(* createTags.                                                             *)
(***************************************************************************)
\* The head and the first statements of the loop over options.projects: the
\* tag name and message of the next project, and createTag's fresh tagInfo;
\* when the projects are used up, the `if (options.createGlobalTags)`.
ProjectLoop ==
    /\ pc = "projectLoop"
    /\ IF idx <= Len(filteredProjects)
       THEN LET project == filteredProjects[idx]
            IN  /\ tagInfo' = NewTagInfo(
                        ProjectTagName(project, inputs.tagPrefix),
                        project.version, project.project, FALSE,
                        ProjectMessage(inputs.tagMessageTemplate, project))
                /\ pc' = "checkTagExists"
       ELSE /\ tagInfo' = NoTagInfo
            /\ pc' = IF inputs.createGlobalTags
                     THEN "determineGlobalTags" ELSE "setOutput"
    /\ calls' = <<>>
    /\ UNCHANGED <<inputs, projectFiles, projectVersions, filteredProjects,
                   result, globalTags, idx, tags, userEmail, userName,
                   outputs, failure, tagAttempts, faults, initTags, firstRun>>

\* DetermineGlobalTags planning from every resolved project.
DetermineGlobalTagsUnfiltered ==
    /\ pc = "determineGlobalTags"
    /\ globalTags' = determineGlobalTags(projectVersions,
                         inputs.globalTagStrategy, inputs.tagPrefix)
    /\ idx' = 1
    /\ pc' = "globalLoop"
    /\ UNCHANGED <<inputs, projectFiles, projectVersions, filteredProjects,
                   result, tagInfo, tags, userEmail, userName, outputs,
                   failure, calls, tagAttempts, faults, initTags, firstRun>>

\* globalTags = determineGlobalTags(...), before the loop over it.
DetermineGlobalTags ==
    /\ pc = "determineGlobalTags"
    /\ globalTags' = determineGlobalTags(filteredProjects,
                         inputs.globalTagStrategy, inputs.tagPrefix)
    /\ idx' = 1
    /\ pc' = "globalLoop"
    /\ UNCHANGED <<inputs, projectFiles, projectVersions, filteredProjects,
                   result, tagInfo, tags, userEmail, userName, outputs,
                   failure, calls, tagAttempts, faults, initTags, firstRun>>

\* The head and the first statements of the loop over globalTags; when they
\* are used up createTags returns.
GlobalLoop ==
    /\ pc = "globalLoop"
    /\ IF idx <= Len(globalTags)
       THEN LET globalTag == globalTags[idx]
            IN  /\ tagInfo' = NewTagInfo(
                        globalTag.tagName, globalTag.version, Global, TRUE,
                        GlobalMessage(inputs.tagMessageTemplate, globalTag))
                /\ pc' = "checkTagExists"
       ELSE /\ tagInfo' = NoTagInfo
            /\ pc' = "setOutput"
    /\ calls' = <<>>
    /\ UNCHANGED <<inputs, projectFiles, projectVersions, filteredProjects,
                   result, globalTags, idx, tags, userEmail, userName,
                   outputs, failure, tagAttempts, faults, initTags, firstRun>>

\* createTag returning info to createTags: the two pushes, the counter, and
\* the loop going on to its next element.
Return(info) ==
    /\ result' = PushTagInfo(result, info)
    /\ tagInfo' = info
    /\ idx' = idx + 1
    /\ pc' = IF info.isGlobal THEN "globalLoop" ELSE "projectLoop"
    /\ failure' = failure

(***************************************************************************)
(* createTag.                                                              *)
(***************************************************************************)
\* stdout of `git tag -l <name>` for a name without glob characters.
TagListStdout(tagName, repoTags) ==
    IF tagName \in repoTags THEN tagName \o <<"\n">> ELSE <<>>

\* checkTagExists: stdout.trim() === tagName, or false when exec raised.
checkTagExists(tagName, repoTags, raised) ==
    IF raised THEN FALSE ELSE Trim(TagListStdout(tagName, repoTags)) = tagName

\* AfterCheck without the dry-run return.
AfterCheckNoDryRun(info, tagExists, failOnExisting, dryRun) ==
    IF tagExists
    THEN [do   |-> IF failOnExisting THEN "throw" ELSE "return",
          info |-> [info EXCEPT !.skipped = TRUE, !.reason = TagAlreadyExists]]
    ELSE [do |-> "go on", info |-> info]

\* What createTag does with the answer of checkTagExists, up to the dry-run
\* return: "throw", "return" (with the tagInfo to return) or "go on".
AfterCheck(info, tagExists, failOnExisting, dryRun) ==
    IF tagExists
    THEN [do   |-> IF failOnExisting THEN "throw" ELSE "return",
          info |-> [info EXCEPT !.skipped = TRUE, !.reason = TagAlreadyExists]]
    ELSE IF dryRun
    THEN [do   |-> "return",
          info |-> [info EXCEPT !.skipped = TRUE, !.reason = DryRunMode]]
    ELSE [do |-> "go on", info |-> info]

\* The results the environment may give an exec call: it may raise (or, for
\* `git tag`, exit non-zero) while fewer than MaxFaults calls have failed.
Raises == IF faults < MaxFaults THEN BOOLEAN ELSE {FALSE}

Fault(failed) == faults' = IF failed THEN faults + 1 ELSE faults

\* createTag from its existence check to the dry-run return.
CheckTagExists ==
    /\ pc = "checkTagExists"
    /\ \E raised \in Raises :
        /\ Fault(raised)
        /\ LET tagExists == checkTagExists(tagInfo.tagName, tags, raised)
               next == AfterCheck(tagInfo, tagExists, inputs.failOnExisting,
                                  inputs.dryRun)
           IN  CASE next.do = "throw" ->
                      /\ Fail("Tag already exists")
                      /\ tagInfo' = next.info
                      /\ UNCHANGED <<result, idx>>
                 [] next.do = "return" -> Return(next.info)
                 [] OTHER ->
                      /\ pc' = "emailCheck"
                      /\ UNCHANGED <<result, idx, tagInfo, failure>>
    /\ calls' = Append(calls, Call("git tag -l", tagInfo.tagName))
    /\ UNCHANGED <<inputs, projectFiles, projectVersions, filteredProjects,
                   globalTags, tags, userEmail, userName, outputs,
                   tagAttempts, initTags, firstRun>>

\* NeedsIdentity without the test: the default identity is always set.
NeedsIdentityAlways(exitCode, stdout) == TRUE

\* Whether the answer of `git config user.email` makes createTag set the
\* default identity.
NeedsIdentity(exitCode, stdout) == exitCode # 0 \/ Trim(stdout) = <<>>

\* `git config user.email`: the try block up to its if; exec raising enters
\* the catch block.
EmailCheck ==
    /\ pc = "emailCheck"
    /\ \E raised \in Raises :
        /\ Fault(raised)
        /\ LET exitCode == IF userEmail = <<>> THEN 1 ELSE 0
               stdout == IF userEmail = <<>> THEN <<>>
                         ELSE userEmail \o <<"\n">>
           IN  pc' = IF raised THEN "identityFallback"
                     ELSE IF NeedsIdentity(exitCode, stdout) THEN "setIdentity"
                     ELSE "gitTag"
    /\ calls' = Append(calls, Call("git config user.email", tagInfo.tagName))
    /\ UNCHANGED <<inputs, projectFiles, projectVersions, filteredProjects,
                   result, globalTags, idx, tagInfo, tags, userEmail,
                   userName, outputs, failure, tagAttempts, initTags, firstRun>>

\* The two `git config` writes; each exec raises on a spawn error or a
\* non-zero exit code.  how: "ok", "email raised" or "name raised".
SetDefaultIdentity(how) ==
    /\ userEmail' = IF how = "email raised" THEN userEmail ELSE DefaultEmail
    /\ userName' = IF how = "ok" THEN DefaultName ELSE userName
    /\ calls' = IF how = "email raised"
                THEN Append(calls, Call("git config user.email <default>",
                                        tagInfo.tagName))
                ELSE calls \o
                     << Call("git config user.email <default>", tagInfo.tagName),
                        Call("git config user.name <default>", tagInfo.tagName) >>

IdentityOutcomes ==
    IF faults < MaxFaults THEN {"ok", "email raised", "name raised"} ELSE {"ok"}

\* The writes inside the try block: a raise enters the catch block.
SetIdentity ==
    /\ pc = "setIdentity"
    /\ \E how \in IdentityOutcomes :
        /\ Fault(how # "ok")
        /\ SetDefaultIdentity(how)
        /\ pc' = IF how = "ok" THEN "gitTag" ELSE "identityFallback"
    /\ UNCHANGED <<inputs, projectFiles, projectVersions, filteredProjects,
                   result, globalTags, idx, tagInfo, tags, outputs, failure,
                   tagAttempts, initTags, firstRun>>

\* The catch block of the identity configuration holds no try of its own: a
\* raise of one of its writes is thrown out of createTag.
FallbackDo(how) == IF how = "ok" THEN "go on" ELSE "throw"

\* The writes inside the catch block.
IdentityFallback ==
    /\ pc = "identityFallback"
    /\ \E how \in IdentityOutcomes :
        /\ Fault(how # "ok")
        /\ SetDefaultIdentity(how)
        /\ IF FallbackDo(how) = "go on"
           THEN pc' = "gitTag" /\ failure' = failure
           ELSE Fail("git config raised")
    /\ UNCHANGED <<inputs, projectFiles, projectVersions, filteredProjects,
                   result, globalTags, idx, tagInfo, tags, outputs,
                   tagAttempts, initTags, firstRun>>

\* AfterGitTag with a catch block that records the reason but not skipped.
AfterGitTagNoSkip(info, how) ==
    IF how = "ok"
    THEN [info EXCEPT !.created = TRUE]
    ELSE [info EXCEPT !.reason = FailedToCreate \o <<"Error: ", "<exec>">>]

\* tagInfo after `git tag`: how is "ok", "non-zero exit" or "raised"; both
\* failures are caught by the same catch block.
AfterGitTag(info, how) ==
    IF how = "ok"
    THEN [info EXCEPT !.created = TRUE]
    ELSE [info EXCEPT !.skipped = TRUE,
                      !.reason = FailedToCreate \o
                          (IF how = "non-zero exit"
                           THEN <<"Error: Git tag creation failed: ", "<stderr>">>
                           ELSE <<"Error: ", "<exec>">>)]

\* GitTagDo with a try block that lets a raise of exec through.
GitTagDoRethrow(how) == IF how = "raised" THEN "throw" ELSE "return"

\* The try block around `git tag` catches the thrown non-zero exit and a raise
\* of exec alike: createTag returns tagInfo in every case.
GitTagDo(how) == "return"

\* The results `git tag [-s] -m <message> <name>` may have: git refuses a name
\* the repository holds; any call may fail for a reason of the environment
\* (signing key, lock, spawn).
GitTagOutcomes(tagName) ==
    IF tagName \in tags THEN {"non-zero exit"}
    ELSE IF faults < MaxFaults THEN {"ok", "non-zero exit", "raised"}
    ELSE {"ok"}

\* The try block that creates the tag, and createTag's return.
GitTag ==
    /\ pc = "gitTag"
    /\ \E how \in GitTagOutcomes(tagInfo.tagName) :
        /\ Fault(how # "ok" /\ tagInfo.tagName \notin tags)
        /\ tags' = IF how = "ok" THEN tags \cup {tagInfo.tagName} ELSE tags
        /\ IF GitTagDo(how) = "return"
           THEN Return(AfterGitTag(tagInfo, how))
           ELSE /\ Fail("git tag failed")
                /\ UNCHANGED <<result, idx, tagInfo>>
    /\ calls' = Append(calls,
                       Call(IF inputs.signTags THEN "git tag -s" ELSE "git tag",
                            tagInfo.tagName))
    /\ tagAttempts' = tagAttempts \cup {tagInfo.tagName}
    /\ UNCHANGED <<inputs, projectFiles, projectVersions, filteredProjects,
                   globalTags, userEmail, userName, outputs, initTags, firstRun>>

(***************************************************************************)
(* run, after createTags.                                                  *)
(***************************************************************************)
\* SetOutput returning before the outputs when there is no outcome.
SetOutputUnlessEmpty ==
    /\ pc = "setOutput"
    /\ outputs' = IF result.tagsCreated = <<>> THEN outputs ELSE <<result>>
    /\ pc' = "done"
    /\ UNCHANGED <<inputs, projectFiles, projectVersions, filteredProjects,
                   result, globalTags, idx, tagInfo, tags, userEmail,
                   userName, failure, calls, tagAttempts, faults, initTags, firstRun>>

\* The five core.setOutput calls.
SetOutput ==
    /\ pc = "setOutput"
    /\ outputs' = <<result>>
    /\ pc' = "done"
    /\ UNCHANGED <<inputs, projectFiles, projectVersions, filteredProjects,
                   result, globalTags, idx, tagInfo, tags, userEmail,
                   userName, failure, calls, tagAttempts, faults, initTags, firstRun>>

\* The action is run again on the repository as a completed live run that
\* created a tag left it, with the same inputs.
Rerun ==
    /\ pc = "done"
    /\ firstRun = <<>>
    /\ outputs # <<>>
    /\ result.totalCount > 0
    /\ firstRun' = << [projectVersions |-> projectVersions,
                       created |-> { result.tagsCreated[i].tagName :
                                       i \in { j \in 1..Len(result.tagsCreated) :
                                                 result.tagsCreated[j].created } }] >>
    /\ pc' = "findProjectFiles"
    /\ projectFiles' = 0
    /\ projectVersions' = <<>>
    /\ filteredProjects' = <<>>
    /\ result' = EmptyResult
    /\ globalTags' = <<>>
    /\ idx' = 1
    /\ tagInfo' = NoTagInfo
    /\ outputs' = <<>>
    /\ failure' = ""
    /\ calls' = <<>>
    /\ tagAttempts' = {}
    /\ faults' = 0
    /\ initTags' = tags
    /\ UNCHANGED <<inputs, tags, userEmail, userName>>

Next ==
    \/ FindProjectFiles
    \/ FindProjectFilesRaises
    \/ GetProjectVersion
    \/ GetProjectVersionFails
    \/ FilterProjects
    \/ ProjectLoop
    \/ DetermineGlobalTags
    \/ GlobalLoop
    \/ CheckTagExists
    \/ EmailCheck
    \/ SetIdentity
    \/ IdentityFallback
    \/ GitTag
    \/ SetOutput

Spec == Init /\ [][Next]_vars

\* A live run without fail-on-existing, and the same run once more.
InitRerun ==
    \E in \in RunInputs, t \in InitialTagSets, email \in InitialEmails :
        /\ ~in.dryRun
        /\ ~in.failOnExisting
        /\ InitWith(in, t, email)

NextRerun == Next \/ Rerun

SpecRerun == InitRerun /\ [][NextRerun]_vars

\* The action is run live on the repository as a completed dry run left it,
\* with the same inputs but dry-run, the same project files and the same
\* answers of mr-version; what the dry run reported is kept.
RerunLive ==
    /\ pc = "done"
    /\ firstRun = <<>>
    /\ outputs # <<>>
    /\ inputs.dryRun
    /\ inputs' = [inputs EXCEPT !.dryRun = FALSE]
    /\ firstRun' = << [projectVersions |-> projectVersions,
                       created |-> {},
                       wouldCreate |->
                           { result.tagsCreated[i].tagName :
                               i \in { j \in 1..Len(result.tagsCreated) :
                                         result.tagsCreated[j].reason = DryRunMode } },
                       existing |->
                           { result.tagsCreated[i].tagName :
                               i \in { j \in 1..Len(result.tagsCreated) :
                                         result.tagsCreated[j].reason = TagAlreadyExists } }] >>
    /\ pc' = "findProjectFiles"
    /\ projectFiles' = 0
    /\ projectVersions' = <<>>
    /\ filteredProjects' = <<>>
    /\ result' = EmptyResult
    /\ globalTags' = <<>>
    /\ idx' = 1
    /\ tagInfo' = NoTagInfo
    /\ outputs' = <<>>
    /\ failure' = ""
    /\ calls' = <<>>
    /\ tagAttempts' = {}
    /\ faults' = 0
    /\ initTags' = tags
    /\ UNCHANGED <<tags, userEmail, userName>>

\* A dry run without fail-on-existing, and the same run live.
InitDryThenLive ==
    \E in \in RunInputs, t \in InitialTagSets, email \in InitialEmails :
        /\ in.dryRun
        /\ ~in.failOnExisting
        /\ InitWith(in, t, email)

NextDryThenLive == Next \/ RerunLive

SpecDryThenLive == InitDryThenLive /\ [][NextDryThenLive]_vars

(***************************************************************************)
(* filterProjects and determineGlobalTags on their own: run is taken at    *)
(* the call, with the records mr-version may have answered drawn from      *)
(* wider sets than Catalog.                                                *)
(***************************************************************************)
\* The sequences over S of length at most n.
SeqsUpTo(S, n) == UNION { [1..k -> S] : k \in 0..n }

\* Records of every classification, for filterProjects.
SelectCatalog ==
    { ProjectRecord(name, V200, changed, test, packable) :
        name \in { <<"W","e","b">>, <<"A","p","i">> },
        changed \in BOOLEAN, test \in BOOLEAN, packable \in BOOLEAN }

SelectInputs ==
    [tagPrefix : {TagPrefixV},
     createGlobalTags : {FALSE},
     globalTagStrategy : {MajorOnly},
     tagMessageTemplate : {TemplateShort},
     dryRun : {TRUE},
     failOnExisting : {FALSE},
     includeTestProjects : BOOLEAN,
     includeNonPackable : BOOLEAN,
     onlyChanged : BOOLEAN,
     signTags : {FALSE}]

\* run about to call filterProjects.
InitSelect ==
    \E in \in SelectInputs, records \in SeqsUpTo(SelectCatalog, MaxRecords) :
        /\ inputs = in
        /\ pc = "filterProjects"
        /\ projectFiles = Len(records)
        /\ projectVersions = records
        /\ filteredProjects = <<>>
        /\ result = EmptyResult
        /\ globalTags = <<>>
        /\ idx = 1
        /\ tagInfo = NoTagInfo
        /\ tags = {}
        /\ userEmail = <<>>
        /\ userName = <<>>
        /\ outputs = <<>>
        /\ failure = ""
        /\ calls = <<>>
        /\ tagAttempts = {}
        /\ faults = 0
        /\ initTags = {}
        /\ firstRun = <<>>

SpecSelect == InitSelect /\ [][FilterProjects]_vars

\* The decimal digits of a natural number.
RECURSIVE NumStr(_)
NumStr(n) ==
    IF n < 10 THEN <<DigitChars[n + 1]>>
    ELSE NumStr(n \div 10) \o <<DigitChars[(n % 10) + 1]>>

\* MAJOR.MINOR.PATCH[-PRERELEASE], the version string mr-version prints.
FormatVersion(sv) ==
    NumStr(sv.major) \o <<Dot>> \o NumStr(sv.minor) \o <<Dot>> \o
    NumStr(sv.patch) \o
    (IF sv.pre = <<>> THEN <<>> ELSE <<"-">> \o sv.pre)

PreBeta1 == <<"b","e","t","a",".","1">>

\* Semantic versions: releases and pre-releases of 2.x.y, and release 3.0.0.
PlanSemVers ==
    [major : {2}, minor : {0, 1, 10}, patch : {0, 1}, pre : {<<>>, PreBeta1}]
    \cup { [major |-> 3, minor |-> 0, patch |-> 0, pre |-> <<>>] }

\* Version strings with fewer than 3 dot-separated components.
ShortVersions == { <<"3",".","0">>, <<"2">> }

PlanCatalog ==
    { ProjectRecord(<<"L","i","b">>, version, TRUE, FALSE, TRUE) :
        version \in { FormatVersion(sv) : sv \in PlanSemVers } \cup ShortVersions }

MajorOnlySpellings == { MajorOnly, <<"M","a","j","o","r","-","O","n","l","y">> }
AllSpellings == { All, <<"A","L","L">> }
NoneSpellings == { None }
OtherStrategies == { <<"m","i","n","o","r">> }

PlanInputs ==
    [tagPrefix : {TagPrefixV, <<"r","-">>},
     createGlobalTags : {TRUE},
     globalTagStrategy : MajorOnlySpellings \cup AllSpellings
                         \cup NoneSpellings \cup OtherStrategies,
     tagMessageTemplate : {TemplateShort},
     dryRun : {TRUE},
     failOnExisting : {FALSE},
     includeTestProjects : {FALSE},
     includeNonPackable : {FALSE},
     onlyChanged : {TRUE},
     signTags : {FALSE}]

\* createTags about to call determineGlobalTags (no project tag is modelled
\* here: the project loop has run, its outcomes are left out).
InitPlan ==
    \E in \in PlanInputs, records \in SeqsUpTo(PlanCatalog, MaxRecords) :
        /\ inputs = in
        /\ pc = "determineGlobalTags"
        /\ projectFiles = Len(records)
        /\ projectVersions = records
        /\ filteredProjects = records
        /\ result = EmptyResult
        /\ globalTags = <<>>
        /\ idx = Len(records) + 1
        /\ tagInfo = NoTagInfo
        /\ tags = {}
        /\ userEmail = <<>>
        /\ userName = <<>>
        /\ outputs = <<>>
        /\ failure = ""
        /\ calls = <<>>
        /\ tagAttempts = {}
        /\ faults = 0
        /\ initTags = {}
        /\ firstRun = <<>>

SpecPlan == InitPlan /\ [][DetermineGlobalTags]_vars

(***************************************************************************)
(* Tag names and messages on their own: run is taken at the call of        *)
(* filterProjects with records that all pass it, in a dry run, with        *)
(* project names in mixed case, a pre-release version, and templates that  *)
(* repeat or lack placeholders.                                            *)
(***************************************************************************)
WebApp == <<"W","e","b","A","p","p">>
MyService == <<"M","y","S","e","r","v","i","c","e">>
V100Beta1 == <<"1",".","0",".","0","-","b","e","t","a",".","1">>
V123 == <<"1",".","2",".","3">>

NamingCatalog ==
    { ProjectRecord(name, version, TRUE, FALSE, TRUE) :
        name \in {WebApp, MyService}, version \in {V100Beta1, V123} }

\* tag-message-template inputs: the placeholders once, one twice, one three
\* times with another between, and none.
Templates ==
    { TemplateShort,
      <<"{","v","e","r","s","i","o","n","}","=","{","v","e","r","s","i","o","n","}">>,
      <<"{","t","y","p","e","}","{","p","r","o","j","e","c","t","}","{","t","y","p","e","}",
        "{","t","y","p","e","}">>,
      <<"{","p","r","o","j","e","c","t","}",":","{","p","r","o","j","e","c","t","}">>,
      <<"R","e","l","e","a","s","e">> }

NamingInputs ==
    [tagPrefix : {TagPrefixV, <<"r","-">>},
     createGlobalTags : BOOLEAN,
     globalTagStrategy : {All, MajorOnly},
     tagMessageTemplate : Templates,
     dryRun : {TRUE},
     failOnExisting : {FALSE},
     includeTestProjects : {FALSE},
     includeNonPackable : {FALSE},
     onlyChanged : {TRUE},
     signTags : {FALSE}]

InitNaming ==
    \E in \in NamingInputs, records \in SeqsUpTo(NamingCatalog, MaxRecords) :
        /\ inputs = in
        /\ pc = "filterProjects"
        /\ projectFiles = Len(records)
        /\ projectVersions = records
        /\ filteredProjects = <<>>
        /\ result = EmptyResult
        /\ globalTags = <<>>
        /\ idx = 1
        /\ tagInfo = NoTagInfo
        /\ tags = {}
        /\ userEmail = <<>>
        /\ userName = <<>>
        /\ outputs = <<>>
        /\ failure = ""
        /\ calls = <<>>
        /\ tagAttempts = {}
        /\ faults = 0
        /\ initTags = {}
        /\ firstRun = <<>>

NextNaming ==
    \/ FilterProjects
    \/ ProjectLoop
    \/ DetermineGlobalTags
    \/ GlobalLoop
    \/ CheckTagExists
    \/ SetOutput

SpecNaming == InitNaming /\ [][NextNaming]_vars

(***************************************************************************)
(* Properties.                                                             *)
(***************************************************************************)
\* The outcomes createTag has returned so far in this run.
Outcomes == result.tagsCreated

OutcomeIndexes == 1..Len(Outcomes)

FailedCreation(o) ==
    ~o.created /\ o.skipped /\ Len(o.reason) > 1 /\ Head(o.reason) = "Failed to create: "

\* The k-th smallest element of a set of numbers.
KthOf(S, k) == CHOOSE j \in S : Cardinality({ i \in S : i <= j }) = k

\* C1: in a dry run the repository holds exactly the tags it held when the run
\* started, in every state of the run, whatever the inputs, the initial tags
\* and the number of outcomes reported.
C1_DryRunKeepsTags == inputs.dryRun => tags = initTags

\* A finished dry run that reported two tags it would create.
C1_Witness ==
    /\ inputs.dryRun
    /\ pc = "done"
    /\ Cardinality({ i \in OutcomeIndexes : Outcomes[i].reason = DryRunMode }) >= 2

\* C2 (as claimed): in a run that repeats a live run, every outcome for a tag
\* the first run created is skipped with reason "Tag already exists", `git tag`
\* is not invoked for such a tag, and the run does not fail on such a tag.
C2_SecondRunSkipsExisting ==
    firstRun # <<>> =>
        /\ \A i \in OutcomeIndexes :
               Outcomes[i].tagName \in firstRun[1].created =>
                   /\ ~Outcomes[i].created
                   /\ Outcomes[i].skipped
                   /\ Outcomes[i].reason = TagAlreadyExists
        /\ tagAttempts \cap firstRun[1].created = {}
        /\ ~(pc = "failed" /\ tagInfo.tagName \in firstRun[1].created)

\* C3 (as claimed): with failOnExisting, a request whose tag the repository
\* holds when its existence is checked ends the run at that check: the run is
\* failed, createTag made no further call, and no output is emitted.
C3_FailOnExistingAborts ==
    (/\ inputs.failOnExisting
     /\ \E i \in 1..Len(calls) : calls[i].cmd = "git tag -l" /\ calls[i].present)
    => (pc = "failed" /\ Len(calls) = 1 /\ outputs = <<>>)

\* C4: a step in which `git tag` fails (non-zero exit or raise, signed or not)
\* leaves the run unfailed, appends for that tag an outcome with created=false,
\* skipped=true and a reason starting "Failed to create: ", and hands control to
\* the loop head for the next request.
C4_CreationFailureIsolated ==
    [][ (pc = "gitTag" /\ pc' # "gitTag" /\ tags' = tags) =>
            /\ pc' = (IF tagInfo.isGlobal THEN "globalLoop" ELSE "projectLoop")
            /\ idx' = idx + 1
            /\ failure' = ""
            /\ Len(result'.tagsCreated) = Len(result.tagsCreated) + 1
            /\ SubSeq(result'.tagsCreated, 1, Len(result.tagsCreated))
                   = result.tagsCreated
            /\ LET o == result'.tagsCreated[Len(result'.tagsCreated)]
               IN  /\ o.tagName = tagInfo.tagName
                   /\ FailedCreation(o) ]_vars

\* A failed creation followed by the creation of a later tag of the same run.
C4_Witness ==
    \E i, j \in OutcomeIndexes :
        /\ i < j
        /\ FailedCreation(Outcomes[i])
        /\ Outcomes[j].created
        /\ inputs.signTags

\* C5 (as claimed): a run that got past discovery ends failed exactly when
\* version resolution failed, or failOnExisting is set and the existence check
\* found a requested tag.
C5_FailsOnlyOnResolutionOrExisting ==
    (pc \in {"done", "failed"} /\ projectFiles > 0) =>
        (pc = "failed" <=>
            \/ failure \in {"mr-version raised", "mr-version failed",
                            "Failed to parse mr-version output"}
            \/ inputs.failOnExisting /\ failure = "Tag already exists")

\* The number of outcomes of a sequence that satisfy created, resp. skipped.
CountCreated(seq) == Cardinality({ i \in 1..Len(seq) : seq[i].created })

CountSkipped(seq) == Cardinality({ i \in 1..Len(seq) : seq[i].skipped })

CountersAgree(r) ==
    /\ r.totalCount = CountCreated(r.tagsCreated)
    /\ r.skippedCount = CountSkipped(r.tagsCreated)
    /\ r.totalCount + r.skippedCount = Len(r.tagsCreated)

\* C6: in createTags' result, at every point of the run and in the result that
\* is emitted, totalCount is the number of outcomes with created=true,
\* skippedCount the number with skipped=true, and their sum the number of
\* outcomes.
C6_CounterInvariant ==
    /\ CountersAgree(result)
    /\ \A i \in 1..Len(outputs) : CountersAgree(outputs[i])

\* An emitted result counting a created tag and a failed creation.
C6_Witness ==
    /\ pc = "done"
    /\ outputs # <<>>
    /\ outputs[1].totalCount >= 1
    /\ \E i \in OutcomeIndexes : FailedCreation(Outcomes[i])

\* C7: every outcome createTag returned has exactly one of created and
\* skipped; a skipped one has the reason "Tag already exists", "Dry run mode"
\* or one starting "Failed to create: "; a created one has no reason.
C7_OutcomeWellFormed ==
    \A i \in OutcomeIndexes :
        LET o == Outcomes[i]
        IN  /\ o.created # o.skipped
            /\ o.skipped =>
                   \/ o.reason = TagAlreadyExists
                   \/ o.reason = DryRunMode
                   \/ Len(o.reason) > 1 /\ Head(o.reason) = "Failed to create: "
            /\ o.created => o.reason = NoReason

\* A live run that returned a created, an already-existing and a failed outcome.
C7_Witness ==
    /\ \E i \in OutcomeIndexes : Outcomes[i].created
    /\ \E i \in OutcomeIndexes : Outcomes[i].reason = TagAlreadyExists
    /\ \E i \in OutcomeIndexes : FailedCreation(Outcomes[i])

\* The claim's condition for a record to be selected.
PassesFilters(p, opts) ==
    /\ opts.includeTestProjects \/ ~p.isTestProject
    /\ opts.includeNonPackable \/ p.isPackable
    /\ ~opts.onlyChanged \/ p.versionChanged

\* C8: filterProjects returns the records that pass every enabled filter, each
\* once and in input order: its k-th record is the input record at the k-th
\* passing position.
C8_FilterExact ==
    pc = "projectLoop" =>
        LET kept == { j \in 1..Len(projectVersions) :
                        PassesFilters(projectVersions[j], inputs) }
        IN  /\ Len(filteredProjects) = Cardinality(kept)
            /\ \A k \in 1..Len(filteredProjects) :
                   filteredProjects[k] = projectVersions[KthOf(kept, k)]

\* Two records of which filterProjects dropped the first, a non-packable one.
C8_Witness ==
    /\ pc = "projectLoop"
    /\ Len(projectVersions) = 2
    /\ ~projectVersions[1].isPackable
    /\ Len(filteredProjects) = 1
    /\ filteredProjects[1] = projectVersions[2]

\* The versions determineGlobalTags planned.
PlannedVersions == { globalTags[k].version : k \in 1..Len(globalTags) }

SelectedVersions == { filteredProjects[j].version : j \in 1..Len(filteredProjects) }

\* C9: under major-only the planned global tags are one per selected version
\* MAJOR.MINOR.PATCH[-PRE] whose minor and patch are both 0: such a version is
\* planned, a version with another minor or patch (2.1.0, 2.0.1, 2.10.0) or
\* with fewer than 3 components is not, and equal versions give one tag.
C9_MajorOnly ==
    (pc = "globalLoop" /\ inputs.globalTagStrategy \in MajorOnlySpellings) =>
        /\ \A sv \in PlanSemVers :
               FormatVersion(sv) \in PlannedVersions <=>
                   /\ sv.minor = 0
                   /\ sv.patch = 0
                   /\ FormatVersion(sv) \in SelectedVersions
        /\ PlannedVersions \subseteq { FormatVersion(sv) : sv \in PlanSemVers }
        /\ Cardinality(PlannedVersions) = Len(globalTags)
        /\ \A k \in 1..Len(globalTags) :
               globalTags[k].tagName = inputs.tagPrefix \o globalTags[k].version

\* Two projects at 3.0.0 under major-only: one global tag.
C9_Witness ==
    /\ pc = "globalLoop"
    /\ inputs.globalTagStrategy = MajorOnly
    /\ Len(filteredProjects) = 2
    /\ filteredProjects[1].version = <<"3",".","0",".","0">>
    /\ filteredProjects[2].version = <<"3",".","0",".","0">>
    /\ Len(globalTags) = 1

\* The number of dot-separated components of a version string.
NumComponents(v) == 1 + Cardinality({ i \in 1..Len(v) : v[i] = Dot })

\* The positions at which a version of at least 3 components is first seen.
FirstSeen(projects) ==
    { j \in 1..Len(projects) :
        /\ NumComponents(projects[j].version) >= 3
        /\ \A i \in 1..(j - 1) : projects[i].version # projects[j].version }

\* C10: with strategy none determineGlobalTags returns the empty list; with
\* strategy all it returns, in first-seen order, one entry per distinct
\* version of at least 3 components, and nothing for a shorter version.
C10_AllAndNone ==
    pc = "globalLoop" =>
        /\ inputs.globalTagStrategy \in NoneSpellings => globalTags = <<>>
        /\ inputs.globalTagStrategy \in AllSpellings =>
               LET first == FirstSeen(filteredProjects)
               IN  /\ Len(globalTags) = Cardinality(first)
                   /\ \A k \in 1..Len(globalTags) :
                          LET version == filteredProjects[KthOf(first, k)].version
                          IN  globalTags[k] =
                                  [tagName |-> inputs.tagPrefix \o version,
                                   version |-> version]

\* Strategy all with a 2-component version before a pre-release: one tag.
C10_Witness ==
    /\ pc = "globalLoop"
    /\ inputs.globalTagStrategy = All
    /\ Len(filteredProjects) = 2
    /\ filteredProjects[1].version \in ShortVersions
    /\ filteredProjects[2].version = <<"2",".","0",".","0","-">> \o PreBeta1
    /\ Len(globalTags) = 1


\* The requests createTags has built so far: the outcomes returned and the
\* request createTag is processing.
Requests ==
    IF pc \in {"checkTagExists", "emailCheck", "setIdentity",
               "identityFallback", "gitTag"}
    THEN Append(Outcomes, tagInfo) ELSE Outcomes

WebAppTag == <<"w","e","b","a","p","p","/","v","1",".","0",".","0","-","b","e","t","a",".","1">>

GlobalBetaTag == <<"v","1",".","0",".","0","-","b","e","t","a",".","1">>

C12_ProjectNameAsGiven ==
    \A k \in 1..Len(Requests) :
        ~Requests[k].isGlobal =>
            Requests[k].tagName = Requests[k].projectName \o <<"/">> \o
                                  inputs.tagPrefix \o Requests[k].version


\* The position of the first occurrence of pat in s, 0 when there is none.
FirstAt(s, pat) ==
    IF \E i \in 1..Len(s) : OccursAt(s, pat, i)
    THEN CHOOSE i \in 1..Len(s) :
             OccursAt(s, pat, i) /\ \A j \in 1..(i - 1) : ~OccursAt(s, pat, j)
    ELSE 0

Occurrences(s, pat) == Cardinality({ i \in 1..Len(s) : OccursAt(s, pat, i) })

\* The template read once from left to right, the text at the first
\* occurrence of each placeholder exchanged for its value.
RECURSIVE Render(_, _, _, _, _)
Render(template, i, version, project, type) ==
    IF i > Len(template) THEN <<>>
    ELSE IF i = FirstAt(template, VersionPlaceholder)
    THEN version \o Render(template, i + Len(VersionPlaceholder), version, project, type)
    ELSE IF i = FirstAt(template, ProjectPlaceholder)
    THEN project \o Render(template, i + Len(ProjectPlaceholder), version, project, type)
    ELSE IF i = FirstAt(template, TypePlaceholder)
    THEN type \o Render(template, i + Len(TypePlaceholder), version, project, type)
    ELSE <<template[i]>> \o Render(template, i + 1, version, project, type)

Placeholders == {VersionPlaceholder, ProjectPlaceholder, TypePlaceholder}

SelectedPositions ==
    { j \in 1..Len(projectVersions) : PassesFilters(projectVersions[j], inputs) }

\* filterProjects has run in this run.
Filtered ==
    /\ projectFiles > 0
    /\ Len(projectVersions) = projectFiles
    /\ pc \notin {"getProjectVersion", "filterProjects"}

\* C13: without createGlobalTags there is no global request, planned or made,
\* and no global outcome, in the run and in the outputs; every global request
\* has the version of a resolved project that passes the filters.
C13_GlobalFromSelected ==
    /\ ~inputs.createGlobalTags =>
           /\ globalTags = <<>>
           /\ result.globalTags = <<>>
           /\ \A k \in 1..Len(Requests) : ~Requests[k].isGlobal
           /\ \A i \in 1..Len(outputs) : outputs[i].globalTags = <<>>
    /\ \A k \in 1..Len(Requests) :
           Requests[k].isGlobal =>
               \E j \in SelectedPositions :
                   projectVersions[j].version = Requests[k].version
    /\ \A k \in 1..Len(result.globalTags) :
           \E j \in SelectedPositions :
               projectVersions[j].version = result.globalTags[k].version

\* A finished run with strategy all in which a test project at 2.1.0 was
\* filtered out: the only global outcome is for 2.0.0.
C13_Witness ==
    /\ pc = "done"
    /\ inputs.createGlobalTags
    /\ inputs.globalTagStrategy = All
    /\ \E j \in 1..Len(projectVersions) :
           j \notin SelectedPositions /\ projectVersions[j].version = V210
    /\ Len(result.globalTags) = 1
    /\ result.globalTags[1].version = V200

\* C14: once filterProjects has run on at least one resolved project and kept
\* none, the run is never failed, no exec call of createTag is made, the
\* repository's tags stay, and a finished run has emitted empty outcome lists
\* and both counters 0.
C14_EmptySelectionSucceeds ==
    (Filtered /\ SelectedPositions = {}) =>
        /\ pc \in {"projectLoop", "determineGlobalTags", "globalLoop",
                   "setOutput", "done"}
        /\ failure = ""
        /\ calls = <<>>
        /\ tagAttempts = {}
        /\ faults = 0
        /\ tags = initTags
        /\ Outcomes = <<>>
        /\ pc = "done" =>
               /\ Len(outputs) = 1
               /\ outputs[1].tagsCreated = <<>>
               /\ outputs[1].globalTags = <<>>
               /\ outputs[1].projectTags = <<>>
               /\ outputs[1].totalCount = 0
               /\ outputs[1].skippedCount = 0

\* A finished live run with global tags enabled whose only project, a test
\* project, was filtered out.
C14_Witness ==
    /\ pc = "done"
    /\ Filtered
    /\ SelectedPositions = {}
    /\ inputs.createGlobalTags
    /\ ~inputs.dryRun
    /\ outputs = <<EmptyResult>>

ResolutionCauses ==
    {"mr-version raised", "mr-version failed", "Failed to parse mr-version output"}

CreateTagsPlaces ==
    {"projectLoop", "determineGlobalTags", "globalLoop", "checkTagExists",
     "emailCheck", "setIdentity", "identityFallback", "gitTag"}

\* A step taken before every project file is resolved leaves the tags, the
\* identity and the outputs as they are.
ResolutionStepKeeps ==
    pc \in {"findProjectFiles", "getProjectVersion"} =>
        /\ tags' = tags
        /\ userEmail' = userEmail
        /\ userName' = userName
        /\ outputs' = outputs

\* C15: createTags is entered only with every project file resolved; until
\* then no step changes the repository's tags, the identity or the outputs;
\* and a run in which a resolution failed is failed with the tags as they
\* were, no exec call of createTag made, no outcome and no output.
C15_ResolutionFirst ==
    /\ [](pc \in CreateTagsPlaces => Len(projectVersions) = projectFiles)
    /\ [](failure \in ResolutionCauses =>
             /\ pc = "failed"
             /\ Len(projectVersions) < projectFiles
             /\ tags = initTags
             /\ tagAttempts = {}
             /\ calls = <<>>
             /\ Outcomes = <<>>
             /\ outputs = <<>>)
    /\ [][ResolutionStepKeeps]_vars

\* A run failed by the resolution of its second project file, in a repository
\* that holds tags and a developer's identity.
C15_Witness ==
    /\ pc = "failed"
    /\ failure = "Failed to parse mr-version output"
    /\ projectFiles = 2
    /\ Len(projectVersions) = 1
    /\ initTags # {}
    /\ userEmail # <<>>

\* C16 (as claimed): every entry of the emitted tags-created,
\* global-tags-created and project-tags-created has created=true.
C16_OutputsOnlyCreated ==
    \A i \in 1..Len(outputs) :
        /\ \A k \in 1..Len(outputs[i].tagsCreated) : outputs[i].tagsCreated[k].created
        /\ \A k \in 1..Len(outputs[i].globalTags) : outputs[i].globalTags[k].created
        /\ \A k \in 1..Len(outputs[i].projectTags) : outputs[i].projectTags[k].created

\* The lists of a result are in processing order: the project outcomes in
\* the order of the selected projects, then the global outcomes in the order
\* planned, split by isGlobal.
InOrder(r) ==
    /\ r.tagsCreated = r.projectTags \o r.globalTags
    /\ \A k \in 1..Len(r.projectTags) :
           /\ ~r.projectTags[k].isGlobal
           /\ r.projectTags[k].projectName = filteredProjects[k].project
           /\ r.projectTags[k].version = filteredProjects[k].version
    /\ \A k \in 1..Len(r.globalTags) :
           /\ r.globalTags[k].isGlobal
           /\ r.globalTags[k].tagName = globalTags[k].tagName
    /\ r.globalTags # <<>> => Len(r.projectTags) = Len(filteredProjects)

\* C17: the result and the outputs are in processing order, and while
\* createTag works on a request the outcomes of exactly the requests before
\* it are recorded and every exec call made since is for that request.
C17_SequentialOrder ==
    /\ InOrder(result)
    /\ \A i \in 1..Len(outputs) : InOrder(outputs[i])
    /\ pc \in {"checkTagExists", "emailCheck", "setIdentity",
               "identityFallback", "gitTag"} =>
           /\ Len(Outcomes) = IF tagInfo.isGlobal
                              THEN Len(filteredProjects) + idx - 1
                              ELSE idx - 1
           /\ \A c \in 1..Len(calls) : calls[c].tag = tagInfo.tagName

\* Emitted outputs with two project outcomes followed by a global outcome.
C17_Witness ==
    /\ pc = "done"
    /\ Len(outputs) = 1
    /\ Len(outputs[1].projectTags) = 2
    /\ Len(outputs[1].globalTags) = 1
    /\ Len(outputs[1].tagsCreated) = 3
    /\ outputs[1].tagsCreated[3].isGlobal

\* C18 (as claimed): in a dry run the outcome of a request is skipped with
\* "Tag already exists" when the repository holds its tag and with "Dry run
\* mode" when it does not, and with failOnExisting a request whose tag the
\* repository holds at its existence check fails the run.
C18_CheckBeforeDryRun ==
    inputs.dryRun =>
        /\ \A k \in OutcomeIndexes :
               /\ Outcomes[k].skipped
               /\ Outcomes[k].reason =
                      IF Outcomes[k].tagName \in tags
                      THEN TagAlreadyExists ELSE DryRunMode
        /\ (/\ inputs.failOnExisting
            /\ \E c \in 1..Len(calls) :
                   calls[c].cmd = "git tag -l" /\ calls[c].present)
           => pc = "failed"

IdentityWrites ==
    {"git config user.email <default>", "git config user.name <default>"}

\* What a step may do to the identity.
IdentityStep ==
    /\ (userEmail' # userEmail \/ userName' # userName) =>
           pc \in {"setIdentity", "identityFallback"}
    /\ (pc' = "identityFallback" /\ pc # "identityFallback") =>
           faults' = faults + 1
    /\ (pc = "emailCheck" /\ userEmail # <<>> /\ faults' = faults) =>
           /\ pc' = "gitTag"
           /\ userEmail' = userEmail
           /\ userName' = userName

\* C19: a request skipped as existing or as a dry run made no call but the
\* existence check; the identity is written only in the identity steps of
\* createTag, the try block writes it only when no email is configured, the
\* catch block is entered only by a failing call, and a configured email whose
\* check succeeds leads to `git tag` with the identity as it was; `git tag` is
\* invoked with an email configured, and after any write of createTag with
\* the default identity.
C19_IdentityFillsGap ==
    /\ [](tagInfo.reason \in {TagAlreadyExists, DryRunMode} =>
             \A c \in 1..Len(calls) : calls[c].cmd = "git tag -l")
    /\ [](pc = "setIdentity" => userEmail = <<>>)
    /\ [](pc = "gitTag" =>
             /\ userEmail # <<>>
             /\ \/ \A c \in 1..Len(calls) : calls[c].cmd \notin IdentityWrites
                \/ userEmail = DefaultEmail /\ userName = DefaultName)
    /\ [][IdentityStep]_vars

\* `git tag` about to be invoked after the existence check, the check of the
\* email and the two writes of the default identity.
C19_Witness ==
    /\ pc = "gitTag"
    /\ userEmail = DefaultEmail
    /\ userName = DefaultName
    /\ Len(calls) = 4
    /\ calls[2].cmd = "git config user.email"
    /\ calls[3].cmd = "git config user.email <default>"


\* The tag names of the outcomes with created=true.
CreatedNames == { Outcomes[k].tagName : k \in { i \in OutcomeIndexes : Outcomes[i].created } }

\* The repository's tags are the initial ones and those of the created
\* outcomes; a request that ended created had its tag absent at its existence
\* check; no tag name has two created outcomes.
CreatedMeansWritten ==
    /\ tags = initTags \cup CreatedNames
    /\ (pc \in {"projectLoop", "globalLoop"} /\ tagInfo.created) =>
           /\ calls[1].cmd = "git tag -l"
           /\ calls[1].tag = tagInfo.tagName
           /\ ~calls[1].present
    /\ \A i, j \in OutcomeIndexes :
           (i # j /\ Outcomes[i].created /\ Outcomes[j].created) =>
               Outcomes[i].tagName # Outcomes[j].tagName

\* C21 (as claimed): created=true only for tags written, the tags growing by
\* exactly those writes from tags absent at their check, no name created
\* twice, and a later request for a name created earlier in the run skipped
\* with reason "Tag already exists".
C21_CreatedIffWritten ==
    /\ CreatedMeansWritten
    /\ \A i, j \in OutcomeIndexes :
           (/\ i < j
            /\ Outcomes[i].created
            /\ Outcomes[j].tagName = Outcomes[i].tagName) =>
               /\ Outcomes[j].skipped
               /\ Outcomes[j].reason = TagAlreadyExists


\* The tag names of the outcomes with the given reason.
NamesWithReason(reason) ==
    { Outcomes[k].tagName : k \in { i \in OutcomeIndexes : Outcomes[i].reason = reason } }

\* C22 (as claimed): when the live run that follows a dry run ends without a
\* failed creation, the names the dry run reported with "Dry run mode" are
\* the names the live run created, and the names of the initial tag set
\* reported with "Tag already exists" are the same in both runs.
C22_DryRunPredictsLive ==
    (/\ firstRun # <<>>
     /\ pc = "done"
     /\ outputs # <<>>
     /\ \A k \in OutcomeIndexes : ~FailedCreation(Outcomes[k])) =>
        /\ firstRun[1].wouldCreate = CreatedNames
        /\ firstRun[1].existing \cap initTags =
               NamesWithReason(TagAlreadyExists) \cap initTags

=============================================================================
